---------------------------- MODULE Spec2Model ----------------------------
(***************************************************************************)
(* A model of pyarl/read_arl.py: the decoder of ARL packed meteorological  *)
(* files.  The file is a sequence of bytes (0..255), the file handle is a  *)
(* cursor into it, and the decode advances through the functions of        *)
(* read_arl() one call at a time.                                          *)
(*                                                                         *)
(* Floating-point values are held as integers in units of 2^-FracBits.     *)
(* Every value the model produces (dyadic header fields, byte differences  *)
(* divided by a power of two) is exactly representable both in that unit   *)
(* and in an IEEE double, so the arithmetic below is the code's.           *)
(***************************************************************************)
EXTENDS Integers, Sequences, FiniteSets, TLC

(***************************************************************************)
(* Bounds of the model                                                     *)
(***************************************************************************)
MaxNX == 2
MaxNY == 2
MaxLevels == 3
MaxPad == 2

(***************************************************************************)
(* Fixed-point unit                                                        *)
(***************************************************************************)
FracBits == 16
One == 2 ^ FracBits

Min(a, b) == IF a < b THEN a ELSE b
Abs(a) == IF a < 0 THEN -a ELSE a

(***************************************************************************)
(* The file handle: read(n) returns the next n bytes, or fewer at the end  *)
(* of the file, and advances the cursor by what it returned.               *)
(***************************************************************************)
fread(f, p, n) == SubSeq(f, p + 1, Min(p + n, Len(f)))
ftell(f, p, n) == IF n < 0 THEN Len(f) ELSE Min(p + n, Len(f))

(***************************************************************************)
(* Exceptions: a kind and a message.                                       *)
(***************************************************************************)
NoErr == [kind |-> "none", msg |-> ""]
ValueError(m) == [kind |-> "ValueError", msg |-> m]
UnicodeDecodeError == [kind |-> "UnicodeDecodeError", msg |-> "ascii"]
KeyError == [kind |-> "KeyError", msg |-> "variable_name"]
IndexError(m) == [kind |-> "IndexError", msg |-> m]
TypeError == [kind |-> "TypeError", msg |-> "dict += list"]
ARLFormatException(m) == [kind |-> "ARLFormatException", msg |-> m]

(***************************************************************************)
(* Converters.  Each returns [ok, val].                                    *)
(***************************************************************************)
Whitespace == {9, 10, 11, 12, 13, 32}
Digits == 48 .. 57

RECURSIVE lstrip(_)
lstrip(b) == IF Len(b) > 0 /\ b[1] \in Whitespace THEN lstrip(Tail(b)) ELSE b

RECURSIVE rstrip(_)
rstrip(b) ==
  IF Len(b) > 0 /\ b[Len(b)] \in Whitespace
    THEN rstrip(SubSeq(b, 1, Len(b) - 1)) ELSE b

strip(b) == rstrip(lstrip(b))

\* One character of a number: st is where the scan is ("start", "int",
\* "frac", "exp0", "exp", "bad"), m the digits of the mantissa without the
\* trailing zeros of its fraction, z the zeros held back, fl the number of
\* fraction digits in m, e the exponent, neg and eneg the two signs.
scan_start ==
  [st |-> "start", m |-> 0, z |-> 0, fl |-> 0, e |-> 0, nd |-> 0,
   neg |-> FALSE, eneg |-> FALSE]

scan_char(a, ch, fractions) ==
  CASE a.st = "start" /\ ch \in {43, 45} /\ a.nd = 0 /\ ~a.neg ->
         [a EXCEPT !.st = "int", !.neg = (ch = 45)]
    [] a.st \in {"start", "int"} /\ ch \in Digits ->
         [a EXCEPT !.st = "int", !.m = 10 * a.m + (ch - 48), !.nd = a.nd + 1]
    [] a.st \in {"start", "int"} /\ ch = 46 /\ fractions ->
         [a EXCEPT !.st = "frac"]
    [] a.st = "frac" /\ ch = 48 ->
         [a EXCEPT !.z = a.z + 1, !.nd = a.nd + 1]
    [] a.st = "frac" /\ ch \in Digits \ {48} ->
         [a EXCEPT !.m = a.m * (10 ^ (a.z + 1)) + (ch - 48),
                   !.fl = a.fl + a.z + 1, !.z = 0, !.nd = a.nd + 1]
    [] a.st \in {"int", "frac"} /\ ch \in {69, 101} /\ a.nd > 0 /\ fractions ->
         [a EXCEPT !.st = "exp0"]
    [] a.st = "exp0" /\ ch \in {43, 45} ->
         [a EXCEPT !.st = "exps", !.eneg = (ch = 45)]
    [] a.st \in {"exp0", "exps", "exp"} /\ ch \in Digits ->
         [a EXCEPT !.st = "exp", !.e = 10 * a.e + (ch - 48)]
    [] OTHER -> [a EXCEPT !.st = "bad"]

RECURSIVE scan(_, _, _, _)
scan(s, n, a, fractions) ==
  IF n > Len(s) THEN a
  ELSE scan(s, n + 1, scan_char(a, s[n], fractions), fractions)

scan_ok(a) == a.st \in {"int", "frac", "exp"} /\ a.nd > 0

\* int(b): optional surrounding whitespace, optional sign, decimal digits.
int_of(a) ==
  IF scan_ok(a) THEN [ok |-> TRUE, val |-> IF a.neg THEN -a.m ELSE a.m]
  ELSE [ok |-> FALSE, val |-> 0]

int(b) == int_of(scan(strip(b), 1, scan_start, FALSE))

\* float(b): [ws][sign]digits[.digits][(E|e)[sign]digits][ws] with at least
\* one digit in the mantissa; the value m * 10^(e - fl) in units of
\* 2^-FracBits.
float_val(m, p10) ==
  IF p10 >= 0 THEN m * One * (10 ^ p10) ELSE (m * One) \div (10 ^ (-p10))

float_abs(a) == float_val(a.m, (IF a.eneg THEN -a.e ELSE a.e) - a.fl)

float_of(a) ==
  IF scan_ok(a)
    THEN [ok |-> TRUE, val |-> IF a.neg THEN -float_abs(a) ELSE float_abs(a)]
  ELSE [ok |-> FALSE, val |-> 0]

float(b) == float_of(scan(strip(b), 1, scan_start, TRUE))

\* b.decode('ascii'): the code points of the bytes; fails on a byte >= 128.
decode_bytes(b) ==
  IF \A i \in 1 .. Len(b) : b[i] < 128 THEN [ok |-> TRUE, val |-> b]
  ELSE [ok |-> FALSE, val |-> <<>>]

do_nothing(b) == [ok |-> TRUE, val |-> b]

convert(fxn, b) ==
  CASE fxn = "int" -> int(b)
    [] fxn = "float" -> float(b)
    [] fxn = "_decode_bytes" -> decode_bytes(b)
    [] OTHER -> do_nothing(b)

\* a failed conversion reported as the module's own exception
convert_error_format(fxn) == ARLFormatException(fxn)

convert_error(fxn) ==
  IF fxn = "_decode_bytes" THEN UnicodeDecodeError ELSE ValueError(fxn)

(***************************************************************************)
(* Header format tables: (key, number of bytes, converter).                *)
(***************************************************************************)
None == "None"
F(k, n, c) == [key |-> k, nbytes |-> n, fxn |-> c]

record_header_format ==
  << F("year", 2, "int"), F("month", 2, "int"), F("day", 2, "int"),
     F("hour", 2, "int"), F(None, 2, "int"), F(None, 2, "int"),
     F(None, 2, "int"), F("kvar", 4, "_decode_bytes"),
     F("scale_exp", 4, "int"), F("precision", 14, "float"),
     F("initial_value", 14, "float") >>

grid_header_format ==
  << F("data_source", 4, "_decode_bytes"), F("forecast_hour", 3, "int"),
     F("data_minutes", 2, "int"), F("pole_lat", 7, "float"),
     F("pole_lon", 7, "float"), F("tangent_lat", 7, "float"),
     F("tangent_lon", 7, "float"), F("grid_size", 7, "float"),
     F("orientation", 7, "float"), F("cone_angle", 7, "float"),
     F("xsync_point", 7, "float"), F("ysync_point", 7, "float"),
     F("sync_point_lat", 7, "float"), F("sync_point_lon", 7, "float"),
     F(None, 7, "_do_nothing"), F("n_x_points", 3, "int"),
     F("n_y_points", 3, "int"), F("n_levels", 3, "int"),
     F("vertical_coord_sys_flag", 2, "int"),
     F("index_record_length", 4, "int") >>

level_header_format ==
  << F("level_height", 6, "float"), F("n_var_at_level", 2, "int") >>

\* the reserved byte that ends a variable header is left unread
variable_header_format_no_reserved ==
  << F("variable_name", 4, "_decode_bytes"), F("checksum", 3, "int") >>

variable_header_format ==
  << F("variable_name", 4, "_decode_bytes"), F("checksum", 3, "int"),
     F(None, 1, "_do_nothing") >>

(***************************************************************************)
(* _read_header_info.  nbytes_total = NoTotal stands for None.  The result *)
(* is the cursor, the exception raised (NoErr if none), the dictionary,    *)
(* and whether some read came back with fewer bytes than it asked for.     *)
(***************************************************************************)
NoTotal == -1
EmptyDict == [k \in {} |-> 0]

overrun_error ==
  ARLFormatException("bytes to read exceeded the total number allowed")

RECURSIVE read_fields(_, _, _, _, _, _, _, _)
read_fields(f, p, format_spec, n, nbytes_total, allow_failed, info, short) ==
  IF n > Len(format_spec)
    THEN [pos |-> IF nbytes_total = NoTotal THEN p
                  ELSE ftell(f, p, nbytes_total),
          err |-> NoErr, info |-> info,
          short |-> short \/ (nbytes_total # NoTotal
                              /\ p + nbytes_total > Len(f))]
    ELSE
      LET fld == format_spec[n]
          raw_bytes == fread(f, p, fld.nbytes)
          p1 == ftell(f, p, fld.nbytes)
          sh == short \/ Len(raw_bytes) < fld.nbytes
          left == IF nbytes_total = NoTotal THEN NoTotal
                  ELSE nbytes_total - fld.nbytes
          c == convert(fld.fxn, raw_bytes)
      IN  IF nbytes_total # NoTotal /\ left < 0
            THEN [pos |-> p1, err |-> overrun_error, info |-> info,
                  short |-> sh]
          ELSE IF fld.key = None
            THEN read_fields(f, p1, format_spec, n + 1, left, allow_failed,
                             info, sh)
          ELSE IF c.ok
            THEN read_fields(f, p1, format_spec, n + 1, left, allow_failed,
                             (fld.key :> c.val) @@ info, sh)
          ELSE IF allow_failed
            THEN read_fields(f, p1, format_spec, n + 1, left, allow_failed,
                             (fld.key :> raw_bytes) @@ info, sh)
          ELSE [pos |-> p1, err |-> convert_error(fld.fxn),
                info |-> info, short |-> sh]

read_header_info(f, p, format_spec, nbytes_total, allow_failed_conversions) ==
  read_fields(f, p, format_spec, 1, nbytes_total, allow_failed_conversions,
              EmptyDict, FALSE)

read_record_header(f, p) ==
  read_header_info(f, p, record_header_format, 50, FALSE)

read_grid_header(f, p) ==
  read_header_info(f, p, grid_header_format, 108, FALSE)

read_level_header(f, p) ==
  read_header_info(f, p, level_header_format, NoTotal, FALSE)

read_variable_header(f, p) ==
  read_header_info(f, p, variable_header_format, NoTotal, FALSE)

(***************************************************************************)
(* int.from_bytes(b, endian, signed=False); an empty read gives 0.         *)
(***************************************************************************)
RECURSIVE from_bytes_little(_)
from_bytes_little(b) ==
  IF Len(b) = 0 THEN 0 ELSE b[1] + 256 * from_bytes_little(Tail(b))

RECURSIVE from_bytes_big(_)
from_bytes_big(b) ==
  IF Len(b) = 0 THEN 0
  ELSE 256 * from_bytes_big(SubSeq(b, 1, Len(b) - 1)) + b[Len(b)]

from_bytes(b, endian) ==
  IF endian = "big" THEN from_bytes_big(b) ELSE from_bytes_little(b)

(***************************************************************************)
(* _read_next_value: the next packed difference added to last_value, then  *)
(* the precision clamp.  unscale(x, e) is x / 2.0 ** e in fixed point,     *)
(* exact for e <= FracBits.                                                *)
(***************************************************************************)
unscale(x, e) == x * (2 ^ (FracBits - e))

\* a value as large as the precision is clamped too
clamp_inclusive(val, precision) == IF Abs(val) <= precision THEN 0 ELSE val

clamp(val, precision) == IF Abs(val) < precision THEN 0 ELSE val

read_byte(f, p, endian) == from_bytes(fread(f, p, 1), endian)

\* big-endian: the first byte read is the high byte
read_value16_by_endian(f, p, last_value, precision, scale_exp, endian) ==
  [pos |-> ftell(f, ftell(f, p, 1), 1),
   val |-> clamp(unscale((IF endian = "big"
                            THEN read_byte(f, p, endian) * 256
                                   + read_byte(f, ftell(f, p, 1), endian)
                            ELSE read_byte(f, ftell(f, p, 1), endian) * 256
                                   + read_byte(f, p, endian)) - 32767,
                         15 - scale_exp) + last_value, precision),
   short |-> p + 2 > Len(f)]

read_value16(f, p, last_value, precision, scale_exp, endian) ==
  [pos |-> ftell(f, ftell(f, p, 1), 1),
   val |-> clamp(unscale((read_byte(f, ftell(f, p, 1), endian) * 256
                            + read_byte(f, p, endian)) - 32767,
                         15 - scale_exp) + last_value, precision),
   short |-> p + 2 > Len(f)]

\* the difference taken from 128, the middle of the byte's range
read_value8_from_128(f, p, last_value, precision, scale_exp, endian) ==
  [pos |-> ftell(f, p, 1),
   val |-> clamp(unscale(read_byte(f, p, endian) - 128, 7 - scale_exp)
                   + last_value, precision),
   short |-> p + 1 > Len(f)]

read_value8(f, p, last_value, precision, scale_exp, endian) ==
  [pos |-> ftell(f, p, 1),
   val |-> clamp(unscale(read_byte(f, p, endian) - 127, 7 - scale_exp)
                   + last_value, precision),
   short |-> p + 1 > Len(f)]

\* one byte read whatever is_16bit says
read_next_value_one_byte(f, p, last_value, precision, scale_exp, is16, big) ==
  read_value8(f, p, last_value, precision, scale_exp,
              IF big THEN "big" ELSE "little")

read_next_value(f, p, last_value, precision, scale_exp, is_16bit, big) ==
  IF is_16bit
    THEN read_value16(f, p, last_value, precision, scale_exp,
                      IF big THEN "big" ELSE "little")
    ELSE read_value8(f, p, last_value, precision, scale_exp,
                     IF big THEN "big" ELSE "little")

(***************************************************************************)
(* _make_empty_arrays_for_vars.  An array is its shape and its cells; a    *)
(* cell is not-a-number or a value.                                        *)
(***************************************************************************)
NaN == [nan |-> TRUE, val |-> 0]
Num(v) == [nan |-> FALSE, val |-> v]

Cells(nx, ny, nz) == (0 .. (nx - 1)) \X (0 .. (ny - 1)) \X (0 .. (nz - 1))

full(nx, ny, nz, fill) ==
  [shape |-> <<nx, ny, nz>>, cells |-> [c \in Cells(nx, ny, nz) |-> fill]]

\* for v in variables: var_dims[v['variable_name']] = zdim
RECURSIVE set_dims(_, _, _, _)
set_dims(var_dims, variables, n, zdim) ==
  IF n > Len(variables) THEN var_dims
  ELSE set_dims((variables[n]["variable_name"] :> zdim) @@ var_dims,
                variables, n + 1, zdim)

\* full-column arrays one slice short
column_dims_one_short(var_dims, level_headers, n_levels) ==
  set_dims(var_dims, level_headers[Len(level_headers)]["variables"], 1,
           n_levels - 1)

surface_dims(level_headers) ==
  set_dims(EmptyDict, level_headers[1]["variables"], 1, 1)

column_dims(var_dims, level_headers, n_levels) ==
  set_dims(var_dims, level_headers[Len(level_headers)]["variables"], 1,
           n_levels)

make_empty_arrays_for_vars(level_headers, nx, ny, n_levels) ==
  LET var_dims ==
        column_dims(surface_dims(level_headers), level_headers, n_levels)
  IN  [name \in DOMAIN var_dims |-> full(nx, ny, var_dims[name], NaN)]

(***************************************************************************)
(* _read_data: the destination z-index of level klev (0-based), and the    *)
(* next (level, variable) pair of the two nested loops at or after         *)
(* (klev, v): v is the 1-based position in level klev's catalog.           *)
(***************************************************************************)
\* the level index used as the z-index
z_index_klev(klev) == klev

z_index(klev) == IF klev = 0 THEN klev ELSE klev - 1

RECURSIVE next_record(_, _, _)
next_record(level_headers, klev, v) ==
  IF klev >= Len(level_headers) THEN [more |-> FALSE, klev |-> klev, v |-> 1]
  ELSE IF v > Len(level_headers[klev + 1]["variables"])
    THEN next_record(level_headers, klev + 1, 1)
  ELSE [more |-> TRUE, klev |-> klev, v |-> v]

\* the seed carried on from the last column of the row
row_seed_last_column(var_arr, j, k) ==
  var_arr.cells[<<var_arr.shape[1] - 1, j, k>>].val

\* last_val = var_arr[0, j, k].item() at the end of row j
row_seed(var_arr, j, k) == var_arr.cells[<<0, j, k>>].val

(***************************************************************************)
(* The files the decode is run on.  A file is laid out as the format       *)
(* tables above describe it: index record header, grid header, level and   *)
(* variable headers, a run of zero bytes, then one record (header and      *)
(* nx * ny packed bytes) per level and variable.  Text is written as its   *)
(* ASCII codes.                                                            *)
(***************************************************************************)
INDX == <<73, 78, 68, 88>>            \* "INDX"
XXXX == <<88, 88, 88, 88>>            \* "XXXX"
PRSS == <<80, 82, 83, 83>>            \* "PRSS"
T02M == <<84, 48, 50, 77>>            \* "T02M"
UWND == <<85, 87, 78, 68>>            \* "UWND"
TEMP == <<84, 69, 77, 80>>            \* "TEMP"
AWRF == <<65, 87, 82, 70>>            \* "AWRF"

F14_0 == <<32, 48, 46, 48, 48, 48, 48, 48, 48, 48, 69, 43, 48, 48>>
                                      \* " 0.0000000E+00"
F14_64th == <<32, 48, 46, 49, 53, 54, 50, 53, 48, 48, 69, 45, 48, 49>>
                                      \* " 0.1562500E-01"
F14_1p5 == <<32, 48, 46, 49, 53, 48, 48, 48, 48, 48, 69, 43, 48, 49>>
                                      \* " 0.1500000E+01"
F7_90 == <<32, 32, 57, 48, 46, 48, 48>>       \* "  90.00"
F7_12p5 == <<32, 32, 49, 50, 46, 53, 48>>     \* "  12.50"
F6_1 == <<49, 46, 48, 48, 48, 48>>            \* "1.0000"

RECURSIVE DecDigits(_)
DecDigits(n) ==
  IF n < 10 THEN <<48 + n>> ELSE DecDigits(n \div 10) \o <<48 + (n % 10)>>

Spaces(w) == [i \in 1 .. w |-> 32]

\* n as right-justified decimal text in a field of w bytes
Dec(n, w) ==
  LET d == IF n < 0 THEN <<45>> \o DecDigits(-n) ELSE DecDigits(n)
  IN  Spaces(w - Len(d)) \o d

RECURSIVE Flatten(_)
Flatten(ss) == IF Len(ss) = 0 THEN <<>> ELSE Head(ss) \o Flatten(Tail(ss))

RecordHeaderBytes(kvar, par) ==
  Dec(95, 2) \o Dec(10, 2) \o Dec(16, 2) \o Dec(0, 2) \o Dec(0, 2)
    \o Dec(1, 2) \o Dec(99, 2) \o kvar \o Dec(par.scale_exp, 4)
    \o par.precision \o par.initial_value

GridHeaderBytes(nx, ny, nz) ==
  AWRF \o Dec(0, 3) \o Dec(0, 2)
    \o F7_90 \o F7_12p5 \o F7_90 \o F7_12p5 \o F7_12p5 \o F7_90 \o F7_90
    \o F7_12p5 \o F7_12p5 \o F7_90 \o F7_12p5 \o Spaces(7)
    \o Dec(nx, 3) \o Dec(ny, 3) \o Dec(nz, 3) \o Dec(2, 2) \o Dec(158, 4)

VariableHeaderBytes(name) == name \o Dec(123, 3) \o Spaces(1)

LevelBytes(names) ==
  F6_1 \o Dec(Len(names), 2)
    \o Flatten([i \in 1 .. Len(names) |-> VariableHeaderBytes(names[i])])

\* The variables cataloged at each of n levels.
LayoutKinds == {"std", "two", "both", "mid", "empty"}

Layout(kind, n) ==
  [l \in 1 .. n |->
     CASE kind = "std" -> IF l = 1 THEN <<PRSS>> ELSE <<UWND>>
       [] kind = "two" -> IF l = 1 THEN <<PRSS, T02M>> ELSE <<UWND, TEMP>>
       [] kind = "both" -> IF l = 1 THEN <<PRSS, UWND>> ELSE <<UWND>>
       [] kind = "mid" -> IF l = 1 THEN <<PRSS>>
                          ELSE IF l = n THEN <<UWND>> ELSE <<UWND, TEMP>>
       [] OTHER -> IF l = 1 THEN <<>> ELSE <<UWND>>]

\* The record parameters: scale exponent, precision, initial value.
Par(se, prec, init) ==
  [scale_exp |-> se, precision |-> prec, initial_value |-> init]

\* The packed bytes of a record: a pattern repeated over its n cells.
Packed(pat, n) == [c \in 1 .. n |-> pat[((c - 1) % Len(pat)) + 1]]

RecordBytes(name, par, pat, n) ==
  RecordHeaderBytes(name, par) \o Packed(pat, n)

DataBytes(lay, par, pat, n) ==
  Flatten([l \in 1 .. Len(lay) |->
    Flatten([v \in 1 .. Len(lay[l]) |-> RecordBytes(lay[l][v], par, pat, n)])])

HeaderBytes(tag, nx, ny, lay) ==
  RecordHeaderBytes(tag, Par(0, F14_0, F14_0))
    \o GridHeaderBytes(nx, ny, Len(lay))
    \o Flatten([l \in 1 .. Len(lay) |-> LevelBytes(lay[l])])

\* What follows the catalog: the length of the run of zero bytes, the
\* record parameters and the packed pattern.
Content(pad, par, pat) == [pad |-> pad, par |-> par, pat |-> pat]

Rising == Content(MaxPad, Par(1, F14_0, F14_1p5), <<128, 130, 125, 127, 0>>)

Contents ==
  { Rising,
    Content(0, Par(0, F14_0, F14_0), <<127>>),
    Content(0, Par(0, F14_64th, F14_0), <<128, 126, 130, 127>>),
    Content(MaxPad, Par(-1, F14_64th, F14_1p5), <<255, 0, 128>>) }

FileBytes(tag, nx, ny, lay, ct) ==
  HeaderBytes(tag, nx, ny, lay) \o [n \in 1 .. ct.pad |-> 0]
    \o DataBytes(lay, ct.par, ct.pat, nx * ny)

Layouts == { Layout(kind, n) : kind \in LayoutKinds, n \in 1 .. MaxLevels }

\* Grids: the smallest and the largest for every catalog, every one for the
\* catalog of two variables a level.
Grids(lay) ==
  IF lay \in { Layout("two", n) : n \in 1 .. MaxLevels }
    THEN (1 .. MaxNX) \X (1 .. MaxNY)
    ELSE { <<1, 1>>, <<MaxNX, MaxNY>> }

CompleteFiles ==
  UNION { { FileBytes(INDX, g[1], g[2], lay, ct) :
              g \in Grids(lay), ct \in Contents } : lay \in Layouts }

\* Files of the unsupported generation: the tag is not "INDX".
OldStyleFiles ==
  { FileBytes(XXXX, MaxNX, MaxNY, Layout("std", n), Rising) :
      n \in 1 .. MaxLevels }

\* Files cut short: in the index record header (before and inside its last
\* field), the grid header, the catalog, at the end of the catalog, in the
\* first record's header (before and inside its last field), in its packed
\* bytes, and one byte before the end.
CutPoints(lay, pad, len) ==
  LET cat == 158 + 8 * (Len(lay) + Len(Flatten(lay)))
      d == cat + pad
  IN  {p \in {20, 39, 110, 162, cat, d + 10, d + 39, d + 51, len - 1} :
         p < len}

TruncatedOf(tag, nx, ny, lay, ct) ==
  LET f == FileBytes(tag, nx, ny, lay, ct)
  IN  { SubSeq(f, 1, p) : p \in CutPoints(lay, ct.pad, Len(f)) }

TruncatedFiles ==
  UNION { TruncatedOf(tag, 1, MaxNY, Layout("std", n), Rising) :
            tag \in {INDX, XXXX}, n \in 1 .. MaxLevels }

Files == CompleteFiles \cup OldStyleFiles \cup TruncatedFiles

(***************************************************************************)
(* The state of one call of read_arl(filename).                            *)
(***************************************************************************)
VARIABLES
  call,            \* the function called and its arguments
  file,            \* the bytes of the file behind fhandle
  pos,             \* fhandle's cursor
  pc,              \* where the call is
  short_reads,     \* the places where a read met the end of the file
  err,             \* the exception that ended the call, NoErr while running
  is_16bit,        \* keyword arguments of _read_data / _advance_to_first_var
  is_big_endian,
  file_hdr,        \* _read_arl_header: file_hdr
  grid_hdr,        \* _read_arl_header: grid_hdr
  level_info,      \* _read_level_info: level_info
  header_info,     \* _read_level_info: header_info of the level being read
  var_info,        \* _read_level_info: var_info
  var_arrays,      \* read_arl: data
  writes,          \* how many times _read_data has assigned each cell
  record_headers,  \* _read_data: record_headers
  record_hdr,      \* _read_data: record_hdr
  klev,            \* _read_data: klev
  vidx,            \* _read_data: position of variable in level['variables']
  i,               \* _read_data: i
  j,               \* _read_data: j
  last_val         \* _read_data: last_val

vars ==
  << call, file, pos, pc, short_reads, err, is_16bit, is_big_endian, file_hdr, grid_hdr,
     level_info, header_info, var_info, var_arrays, writes, record_headers,
     record_hdr, klev, vidx, i, j, last_val >>

hdr_vars == << file_hdr, grid_hdr, level_info, header_info, var_info >>
data_vars ==
  << var_arrays, writes, record_headers, record_hdr, klev, vidx, i, j,
     last_val >>
opt_vars == << call, file, is_16bit, is_big_endian >>

\* read_arl(filename)
read_arl == [fn |-> "read_arl"]

Init ==
  /\ call = read_arl
  /\ file \in Files
  /\ pos = 0
  /\ pc = "file_hdr"
  /\ short_reads = {}
  /\ err = NoErr
  /\ is_16bit = FALSE
  /\ is_big_endian = FALSE
  /\ file_hdr = EmptyDict
  /\ grid_hdr = EmptyDict
  /\ level_info = <<>>
  /\ header_info = EmptyDict
  /\ var_info = <<>>
  /\ var_arrays = EmptyDict
  /\ writes = EmptyDict
  /\ record_headers = <<>>
  /\ record_hdr = EmptyDict
  /\ klev = 0
  /\ vidx = 1
  /\ i = 0
  /\ j = 0
  /\ last_val = 0

\* raise e
Raise(e) == pc' = "raised" /\ err' = e

\* a read at this place returned fewer bytes than asked for
Short(r) == short_reads' = IF r.short THEN short_reads \cup {pc}
                           ELSE short_reads

(***************************************************************************)
(* _read_arl_header, lines 126-129: the index record header and its tag.   *)
(***************************************************************************)
\* a dedicated exception class for the tag
tag_error_dedicated ==
  [kind |-> "UnsupportedFormatError",
   msg |-> "old-style file (z-dim variable is not INDX)"]

tag_error ==
  ARLFormatException("old-style file (z-dim variable is not INDX)")

\* every tag accepted
tag_ok_any(hdr) == TRUE

\* file_hdr['kvar'] != 'INDX' is what raises
tag_ok(hdr) == hdr["kvar"] = INDX

ReadFileHeader ==
  /\ pc = "file_hdr"
  /\ \E r \in {read_record_header(file, pos)} :
         /\ pos' = r.pos
         /\ Short(r)
         /\ IF r.err # NoErr
              THEN Raise(r.err) /\ file_hdr' = file_hdr
            ELSE IF ~tag_ok(r.info)
              THEN Raise(tag_error) /\ file_hdr' = r.info
            ELSE pc' = "grid_hdr" /\ err' = err /\ file_hdr' = r.info
  /\ UNCHANGED << opt_vars, grid_hdr, level_info, header_info, var_info,
                  data_vars >>

(***************************************************************************)
(* _read_arl_header, line 130, and the entry of _read_level_info.          *)
(***************************************************************************)
ReadGridHeader ==
  /\ pc = "grid_hdr"
  /\ \E r \in {read_grid_header(file, pos)} :
         /\ pos' = r.pos
         /\ Short(r)
         /\ IF r.err # NoErr
              THEN Raise(r.err) /\ grid_hdr' = grid_hdr
            ELSE /\ grid_hdr' = r.info
                 /\ err' = err
                 /\ pc' = IF r.info["n_levels"] > 0 THEN "level_hdr"
                          ELSE "scan"
  /\ UNCHANGED << opt_vars, file_hdr, level_info, header_info, var_info,
                  data_vars >>

(***************************************************************************)
(* _read_level_info: one level header, then its variable headers.          *)
(***************************************************************************)
\* level_info.append(header_info), and the next iteration of the level loop
\* one level header more than n_levels
level_done_one_more(hdr, variables) ==
  /\ level_info' = Append(level_info, ("variables" :> variables) @@ hdr)
  /\ pc' = IF Len(level_info) + 1 <= grid_hdr["n_levels"] THEN "level_hdr"
           ELSE "scan"

level_done(hdr, variables) ==
  /\ level_info' = Append(level_info, ("variables" :> variables) @@ hdr)
  /\ pc' = IF Len(level_info) + 1 < grid_hdr["n_levels"] THEN "level_hdr"
           ELSE "scan"

ReadLevelHeader ==
  /\ pc = "level_hdr"
  /\ \E r \in {read_level_header(file, pos)} :
         /\ pos' = r.pos
         /\ Short(r)
         /\ IF r.err # NoErr
              THEN Raise(r.err) /\ UNCHANGED << level_info, header_info >>
            ELSE IF r.info["n_var_at_level"] > 0
              THEN /\ header_info' = r.info
                   /\ pc' = "var_hdr"
                   /\ UNCHANGED << err, level_info >>
            ELSE /\ header_info' = r.info
                 /\ level_done(r.info, <<>>)
                 /\ err' = err
  /\ var_info' = <<>>
  /\ UNCHANGED << opt_vars, file_hdr, grid_hdr, data_vars >>

ReadVariableHeader ==
  /\ pc = "var_hdr"
  /\ \E r \in {read_variable_header(file, pos)} :
         /\ pos' = r.pos
         /\ Short(r)
         /\ IF r.err # NoErr
              THEN Raise(r.err) /\ UNCHANGED << level_info, var_info >>
            ELSE /\ var_info' = Append(var_info, r.info)
                 /\ err' = err
                 /\ IF Len(var_info) + 1 < header_info["n_var_at_level"]
                      THEN pc' = "var_hdr" /\ level_info' = level_info
                    ELSE level_done(header_info, Append(var_info, r.info))
  /\ UNCHANGED << opt_vars, file_hdr, grid_hdr, header_info, data_vars >>

(***************************************************************************)
(* _advance_to_first_var: read single bytes while they are zero, then back *)
(* up one byte.                                                            *)
(***************************************************************************)
get_byte(f, p, big) ==
  [b |-> from_bytes(fread(f, p, 1), IF big THEN "big" ELSE "little"),
   pos |-> ftell(f, p, 1), short |-> p + 1 > Len(f)]

GetByte ==
  /\ pc = "scan"
  /\ \E r \in {get_byte(file, pos, is_big_endian)} :
         /\ pos' = r.pos
         /\ Short(r)
         /\ pc' = IF r.b = 0 THEN "scan" ELSE "seek"
  /\ UNCHANGED << opt_vars, err, hdr_vars, data_vars >>

\* the scan ends without backing up
SeekBack_not_backed_up ==
  /\ pc = "seek"
  /\ pos' = pos
  /\ pc' = "alloc"
  /\ UNCHANGED << opt_vars, short_reads, err, hdr_vars, data_vars >>

SeekBack ==
  /\ pc = "seek"
  /\ pos' = pos - 1
  /\ pc' = "alloc"
  /\ UNCHANGED << opt_vars, short_reads, err, hdr_vars, data_vars >>

(***************************************************************************)
(* read_arl, lines 102-105, and the entry of _read_data.                   *)
(***************************************************************************)
\* the loops of _read_data move on to the record at or after (l, v)
goto(nr) ==
  /\ pc' = IF nr.more THEN "record" ELSE "decoded"
  /\ klev' = nr.klev
  /\ vidx' = nr.v

goto_record(l, v) == goto(next_record(level_info, l, v))

Allocate ==
  /\ pc = "alloc"
  /\ IF Len(level_info) = 0
       THEN /\ Raise(IndexError("level_headers[0]"))
            /\ UNCHANGED << var_arrays, writes, klev, vidx >>
       ELSE /\ var_arrays' =
                 make_empty_arrays_for_vars(level_info, grid_hdr["n_x_points"],
                    grid_hdr["n_y_points"], grid_hdr["n_levels"])
            /\ writes' = [name \in DOMAIN var_arrays' |->
                            [c \in DOMAIN var_arrays'[name].cells |-> 0]]
            /\ goto_record(0, 1)
            /\ err' = err
  /\ UNCHANGED << opt_vars, pos, short_reads, hdr_vars, record_headers, record_hdr, i, j,
                  last_val >>

(***************************************************************************)
(* _read_data: the record header of one (level, variable) pair.            *)
(***************************************************************************)
variable_name == level_info[klev + 1]["variables"][vidx]["variable_name"]

ReadRecord ==
  /\ pc = "record"
  /\ \E r \in {read_record_header(file, pos)} :
         /\ pos' = r.pos
         /\ Short(r)
         /\ IF r.err # NoErr
              THEN /\ Raise(r.err)
                   /\ UNCHANGED << record_headers, record_hdr, last_val,
                                   klev, vidx >>
            ELSE IF variable_name \notin DOMAIN var_arrays
              THEN /\ Raise(KeyError)
                   /\ record_headers' = Append(record_headers, r.info)
                   /\ record_hdr' = r.info
                   /\ UNCHANGED << last_val, klev, vidx >>
            ELSE /\ record_headers' = Append(record_headers, r.info)
                 /\ record_hdr' = r.info
                 /\ last_val' = r.info["initial_value"]
                 /\ err' = err
                 /\ LET shape == var_arrays[variable_name].shape
                    IN  IF shape[2] <= 0 THEN goto_record(klev, vidx + 1)
                        ELSE /\ pc' = IF shape[1] <= 0 THEN "rowreset"
                                      ELSE "value"
                             /\ UNCHANGED << klev, vidx >>
  /\ i' = 0
  /\ j' = 0
  /\ UNCHANGED << opt_vars, hdr_vars, var_arrays, writes >>

(***************************************************************************)
(* _read_data, lines 486-488: one cell.                                    *)
(***************************************************************************)
\* var_arr[i, j, k] = last_val, for the value v just read
store_value(v, var_arr, k) ==
  IF k >= var_arr.shape[3]
    THEN /\ Raise(IndexError("var_arr[i, j, k]"))
         /\ UNCHANGED << var_arrays, writes, i >>
    ELSE /\ var_arrays' =
              [var_arrays EXCEPT ![variable_name].cells[<<i, j, k>>] = Num(v)]
         /\ writes' = [writes EXCEPT ![variable_name][<<i, j, k>>] = @ + 1]
         /\ i' = i + 1
         /\ pc' = IF i + 1 < var_arr.shape[1] THEN "value" ELSE "rowreset"
         /\ err' = err

\* the value carried on to the next cell is the one before the clamp
ReadValue_seed_before_clamp ==
  /\ pc = "value"
  /\ \E r \in {read_next_value(file, pos, last_val, record_hdr["precision"],
                 record_hdr["scale_exp"], is_16bit, is_big_endian)} :
         /\ pos' = r.pos
         /\ Short(r)
         /\ last_val' = read_next_value(file, pos, last_val, 0,
                          record_hdr["scale_exp"], is_16bit,
                          is_big_endian).val
         /\ store_value(r.val, var_arrays[variable_name], z_index(klev))
  /\ UNCHANGED << opt_vars, hdr_vars, record_headers, record_hdr, klev, vidx,
                  j >>

ReadValue ==
  /\ pc = "value"
  /\ \E r \in {read_next_value(file, pos, last_val, record_hdr["precision"],
                 record_hdr["scale_exp"], is_16bit, is_big_endian)} :
         /\ pos' = r.pos
         /\ Short(r)
         /\ last_val' = r.val
         /\ store_value(r.val, var_arrays[variable_name], z_index(klev))
  /\ UNCHANGED << opt_vars, hdr_vars, record_headers, record_hdr, klev, vidx,
                  j >>

(***************************************************************************)
(* _read_data, line 489: the end of a row of x.                            *)
(***************************************************************************)
end_of_row(var_arr, k) ==
  IF var_arr.shape[1] <= 0
    THEN /\ Raise(IndexError("var_arr[0, j, k]"))
         /\ UNCHANGED << last_val, i, j, klev, vidx >>
    ELSE /\ last_val' = row_seed(var_arr, j, k)
         /\ i' = 0
         /\ j' = j + 1
         /\ err' = err
         /\ IF j + 1 < var_arr.shape[2]
              THEN pc' = "value" /\ UNCHANGED << klev, vidx >>
              ELSE goto_record(klev, vidx + 1)

RowReset ==
  /\ pc = "rowreset"
  /\ end_of_row(var_arrays[variable_name], z_index(klev))
  /\ UNCHANGED << opt_vars, pos, short_reads, hdr_vars, var_arrays, writes,
                  record_headers, record_hdr >>

(***************************************************************************)
(* read_arl, line 107: record_hdr += _read_data(...).  record_hdr is the   *)
(* dictionary _read_arl_header returned, and a dict has no += with a list. *)
(***************************************************************************)
AppendRecordHeaders ==
  /\ pc = "decoded"
  /\ Raise(TypeError)
  /\ UNCHANGED << opt_vars, pos, short_reads, hdr_vars, data_vars >>

Next ==
  \/ ReadFileHeader
  \/ ReadGridHeader
  \/ ReadLevelHeader
  \/ ReadVariableHeader
  \/ GetByte
  \/ SeekBack
  \/ Allocate
  \/ ReadRecord
  \/ ReadValue
  \/ RowReset
  \/ AppendRecordHeaders

Spec == Init /\ [][Next]_vars

\* read_arl runs on one thread: while the loop of _advance_to_first_var can
\* make its next read, it does
FairSpec == Spec /\ WF_vars(GetByte)

(***************************************************************************)
(* The helpers called on their own, on a handle at the place their         *)
(* docstrings ask for: _read_header_info with a format table, a total      *)
(* width and the conversion switch of the caller's choice, and _read_data  *)
(* with a catalog, the arrays allocated for it and its two keyword         *)
(* arguments.                                                              *)
(***************************************************************************)
read_header_info_call(fs, total, allow) ==
  [fn |-> "_read_header_info", format_spec |-> fs, nbytes_total |-> total,
   allow_failed_conversions |-> allow]

read_data_call == [fn |-> "_read_data"]

advance_to_first_var_call == [fn |-> "_advance_to_first_var"]

\* Format tables: the level header's, the variable header's, and the two
\* one after the other.
CallFormats ==
  { level_header_format, variable_header_format,
    level_header_format \o variable_header_format }

\* Total widths: none, and widths below, at and above those of the tables.
CallTotals == {NoTotal, 6, 8, 12, 20}

BAD6 == <<49, 46, 48, 120, 48, 48>>   \* "1.0x00"
P_SS == <<80, 200, 83, 83>>           \* "P\xc8SS"
N1A3 == <<49, 65, 51>>                \* "1A3"

\* Header bytes: two well-formed ones, a number with a letter in it, a name
\* that is not ASCII, and well-formed ones cut short.
CallHeaderFiles ==
  LET level == LevelBytes(<<PRSS, UWND>>)
      names == VariableHeaderBytes(PRSS) \o LevelBytes(<<UWND>>)
  IN  { level, names,
        BAD6 \o Dec(1, 2) \o VariableHeaderBytes(PRSS) \o Spaces(8),
        F6_1 \o Dec(1, 2) \o PRSS \o N1A3 \o Spaces(9),
        F6_1 \o Dec(1, 2) \o P_SS \o Dec(123, 3) \o Spaces(9),
        PRSS \o N1A3 \o Spaces(1) \o level,
        SubSeq(level, 1, 7), SubSeq(level, 1, 10), SubSeq(names, 1, 5) }

\* The level headers _read_level_info returns for a catalog.
Catalog(lay) ==
  [l \in 1 .. Len(lay) |->
     [level_height |-> One, n_var_at_level |-> Len(lay[l]),
      variables |-> [v \in 1 .. Len(lay[l]) |->
                       [variable_name |-> lay[l][v], checksum |-> 123]]]]

CallLayouts == {Layout("std", 1), Layout("std", 2), Layout("two", 2)}

CallGrids == {<<1, 1>>, <<2 * MaxNX, 1>>, <<MaxNX, MaxNY>>}

CallPars ==
  { Par(0, F14_0, F14_0), Par(0, F14_64th, F14_0),
    Par(1, F14_64th, F14_1p5), Par(-1, F14_0, F14_1p5) }

\* Packed bytes: differences of 0, 1, 2 and -2 units in one byte, of 1, 2,
\* -2 and -2 units in one byte, and of 0, 1, 2 and -2 units in two bytes.
CallPatterns ==
  { <<127, 128, 129, 125>>, <<128, 129, 125, 125>>,
    <<255, 127, 0, 128, 1, 128, 253, 127>> }

bytes_per_value(is16) == IF is16 THEN 2 ELSE 1

Idle ==
  /\ pos = 0
  /\ short_reads = {}
  /\ err = NoErr
  /\ file_hdr = EmptyDict
  /\ grid_hdr = EmptyDict
  /\ header_info = EmptyDict
  /\ var_info = <<>>
  /\ record_headers = <<>>
  /\ record_hdr = EmptyDict
  /\ i = 0
  /\ j = 0
  /\ last_val = 0

HeaderCall ==
  /\ call \in { read_header_info_call(fs, total, allow) :
                  fs \in CallFormats, total \in CallTotals, allow \in BOOLEAN }
  /\ file \in CallHeaderFiles
  /\ pc = "header"
  /\ is_16bit = FALSE
  /\ is_big_endian = FALSE
  /\ level_info = <<>>
  /\ var_arrays = EmptyDict
  /\ writes = EmptyDict
  /\ klev = 0
  /\ vidx = 1
  /\ Idle

DataCall ==
  /\ call = read_data_call
  /\ is_16bit \in BOOLEAN
  /\ is_big_endian \in BOOLEAN
  /\ \E lay \in CallLayouts, g \in CallGrids, par \in CallPars,
        pat \in CallPatterns :
       /\ level_info = Catalog(lay)
       /\ var_arrays = make_empty_arrays_for_vars(Catalog(lay), g[1], g[2],
                                                  Len(lay))
       /\ file = DataBytes(lay, par, pat,
                           g[1] * g[2] * bytes_per_value(is_16bit))
  /\ writes = [name \in DOMAIN var_arrays |->
                 [c \in DOMAIN var_arrays[name].cells |-> 0]]
  /\ pc = "record"
  /\ klev = 0
  /\ vidx = 1
  /\ Idle

\* What the scan is run on: up to MaxPad zero bytes, then a byte that is
\* not zero (low, a digit, the top bit alone, all bits) and some more; and
\* zero bytes alone.
CallScanFiles ==
  { [n \in 1 .. k |-> 0] \o <<b>> \o Dec(95, 2) :
      k \in 0 .. MaxPad, b \in {1, 57, 128, 255} }
    \cup { [n \in 1 .. k |-> 0] : k \in 0 .. MaxPad }

ScanCall ==
  /\ call = advance_to_first_var_call
  /\ file \in CallScanFiles
  /\ is_16bit = FALSE
  /\ is_big_endian \in BOOLEAN
  /\ pc = "scan"
  /\ level_info = <<>>
  /\ var_arrays = EmptyDict
  /\ writes = EmptyDict
  /\ klev = 0
  /\ vidx = 1
  /\ Idle

CallInit == HeaderCall \/ DataCall \/ ScanCall

\* header_info = _read_header_info(fhandle, format_spec, ...)
ReadHeaderInfo ==
  /\ pc = "header"
  /\ \E r \in {read_header_info(file, pos, call.format_spec,
                 call.nbytes_total, call.allow_failed_conversions)} :
         /\ pos' = r.pos
         /\ Short(r)
         /\ header_info' = r.info
         /\ err' = r.err
         /\ pc' = IF r.err # NoErr THEN "raised" ELSE "returned"
  /\ UNCHANGED << opt_vars, file_hdr, grid_hdr, level_info, var_info,
                  data_vars >>

CallNext ==
  \/ ReadHeaderInfo
  \/ GetByte
  \/ SeekBack
  \/ ReadRecord
  \/ ReadValue
  \/ RowReset

CallSpec == CallInit /\ [][CallNext]_vars

(***************************************************************************)
(* Vocabulary of the properties.                                           *)
(***************************************************************************)
AfterAllocation == {"record", "value", "rowreset", "decoded"}

\* the variable names cataloged at level l (1-based position in level_info)
NamesAt(l) ==
  { level_info[l]["variables"][v]["variable_name"] :
      v \in 1 .. Len(level_info[l]["variables"]) }

NLevels == Len(level_info)

\* the cell of the record being decoded at column x of row y
CellOfRecord(x, y) ==
  var_arrays[variable_name].cells[<<x, y, IF klev = 0 THEN 0 ELSE klev - 1>>]

(***************************************************************************)
(* C1.  Row-reset law: while a record is decoded, the value the next cell  *)
(* is a difference from is the header's initial_value for the first cell   *)
(* of the record, the value decoded for the cell to its left within a row, *)
(* and, for the first cell of every row y >= 1, the value stored at        *)
(* (0, y - 1, z): the first column of the row before, not its last column. *)
(***************************************************************************)
C1_RowResetLaw ==
  pc = "value" =>
    last_val = IF i > 0 THEN CellOfRecord(i - 1, j).val
               ELSE IF j = 0 THEN record_hdr["initial_value"]
               ELSE CellOfRecord(0, j - 1).val

\* a second row is about to start and the row before ended on another value
C1_Witness ==
  /\ pc = "value"
  /\ i = 0
  /\ j >= 1
  /\ var_arrays[variable_name].shape[1] >= 2
  /\ CellOfRecord(0, j - 1).val
       # CellOfRecord(var_arrays[variable_name].shape[1] - 1, j - 1).val

(***************************************************************************)
(* C2.  Cursor alignment: a header parser that is given a complete header  *)
(* whose fields all convert moves the cursor by the header's declared      *)
(* width: 50 for a file or record header, 108 for the grid header, 8 for a *)
(* level header and 8 for a variable header.                               *)
(***************************************************************************)
RecordHeaderWidth == 50
GridHeaderWidth == 108
LevelHeaderWidth == 8
VariableHeaderWidth == 8

ValidHeader(r, width) == r.err = NoErr /\ pos + width <= Len(file)

C2_CursorAlignment ==
  [][ /\ (pc \in {"file_hdr", "record"}
           /\ ValidHeader(read_record_header(file, pos), RecordHeaderWidth))
         => pos' = pos + RecordHeaderWidth
      /\ (pc = "grid_hdr"
           /\ ValidHeader(read_grid_header(file, pos), GridHeaderWidth))
         => pos' = pos + GridHeaderWidth
      /\ (pc = "level_hdr"
           /\ ValidHeader(read_level_header(file, pos), LevelHeaderWidth))
         => pos' = pos + LevelHeaderWidth
      /\ (pc = "var_hdr"
           /\ ValidHeader(read_variable_header(file, pos),
                          VariableHeaderWidth))
         => pos' = pos + VariableHeaderWidth ]_vars

\* all four kinds of header have been parsed and the cursor stands at the
\* end of a record header
C2_Witness ==
  /\ pc = "value"
  /\ i = 0 /\ j = 0
  /\ Len(record_headers) >= 2
  /\ short_reads = {}
  /\ \E l \in 1 .. NLevels : Len(level_info[l]["variables"]) >= 2

(***************************************************************************)
(* C3.  When the data decoder has run to its end over a catalog whose      *)
(* surface variables are at level 0 only and whose full-column variables   *)
(* are at every other level, every cell of every array has been assigned   *)
(* exactly once and none is still not-a-number.                            *)
(***************************************************************************)
RegularCatalog ==
  \A l \in 2 .. NLevels :
    NamesAt(l) \cap NamesAt(1) = {} /\ NamesAt(l) = NamesAt(2)

C3_EveryCellWrittenOnce ==
  (pc = "decoded" /\ short_reads = {} /\ RegularCatalog) =>
    \A name \in DOMAIN var_arrays :
      \A c \in DOMAIN var_arrays[name].cells :
        ~var_arrays[name].cells[c].nan /\ writes[name][c] = 1

(***************************************************************************)
(* C4.  A file that ends inside a record, in its header or in its packed   *)
(* values, makes the decode raise a format error (the overrun exception or *)
(* a failed conversion); the data decoder never runs to its end over such  *)
(* a file with arrays in its hands.                                        *)
(***************************************************************************)
FormatErrorKinds == {"ARLFormatException", "ValueError", "UnicodeDecodeError"}

EndsInsideRecord == short_reads \cap {"record", "value"} # {}

C4_TruncationRaises ==
  (EndsInsideRecord /\ pc \in {"decoded", "raised"}) =>
    (pc = "raised" /\ err.kind \in FormatErrorKinds)

(***************************************************************************)
(* C5.  A cell decoded for a record of level klev is stored at z-index 0   *)
(* when klev = 0 and at z-index klev - 1 otherwise, in the array of the    *)
(* record's variable, and no other cell is assigned.                       *)
(***************************************************************************)
C5_DestinationZIndex ==
  [][ (pc = "value" /\ pc' # "raised") =>
        LET k == IF klev = 0 THEN 0 ELSE klev - 1
        IN  /\ var_arrays'[variable_name].cells[<<i, j, k>>] = Num(last_val')
            /\ writes'[variable_name][<<i, j, k>>]
                 = writes[variable_name][<<i, j, k>>] + 1
            /\ \A name \in DOMAIN writes : \A c \in DOMAIN writes[name] :
                 writes'[name][c] # writes[name][c]
                   => (name = variable_name /\ c = <<i, j, k>>) ]_vars

\* a row of the third level has been stored in slice 1
C5_Witness ==
  /\ pc = "rowreset"
  /\ klev = 2
  /\ writes[variable_name][<<0, j, 1>>] = 1
  /\ writes[variable_name][<<0, j, 0>>] = 1

(***************************************************************************)
(* C6.  The allocator makes exactly one array for every name in the first  *)
(* or the last level's catalog, of shape (n_x_points, n_y_points, extent)  *)
(* and all not-a-number, where the extent is 1 for a name that is in the   *)
(* first level's catalog and not in the last's, and n_levels for a name    *)
(* that is in the last level's catalog and not in the first's.             *)
(***************************************************************************)
C6_Allocation ==
  pc \in AfterAllocation =>
    LET nx == grid_hdr["n_x_points"]
        ny == grid_hdr["n_y_points"]
        nz == grid_hdr["n_levels"]
    IN  /\ DOMAIN var_arrays = NamesAt(1) \cup NamesAt(NLevels)
        /\ \A name \in NamesAt(1) \ NamesAt(NLevels) :
             var_arrays[name].shape = <<nx, ny, 1>>
        /\ \A name \in NamesAt(NLevels) \ NamesAt(1) :
             var_arrays[name].shape = <<nx, ny, nz>>
        /\ \A name \in DOMAIN var_arrays :
             /\ DOMAIN var_arrays[name].cells
                  = Cells(nx, ny, var_arrays[name].shape[3])
             /\ \A c \in DOMAIN var_arrays[name].cells :
                  writes[name][c] = 0 => var_arrays[name].cells[c] = NaN

\* just allocated: a surface array of extent 1 beside a column array of
\* extent n_levels >= 2, nothing decoded yet
C6_Witness ==
  /\ pc = "record"
  /\ record_headers = <<>>
  /\ NLevels >= 2
  /\ \E a \in DOMAIN var_arrays, b \in DOMAIN var_arrays :
       /\ var_arrays[a].shape[3] = 1
       /\ var_arrays[b].shape[3] = NLevels
       /\ \A c \in DOMAIN var_arrays[b].cells : var_arrays[b].cells[c].nan

(***************************************************************************)
(* C7.  A variable cataloged both at level 0 and at the last level of a    *)
(* file of more than one level ends the decode with an explicit error: the *)
(* decode does not go on to allocate and decode with one of the two        *)
(* extents.                                                                *)
(***************************************************************************)
ConflictingExtents ==
  /\ NLevels > 1
  /\ NamesAt(1) \cap NamesAt(NLevels) # {}

C7_ConflictIsAnError ==
  pc \in AfterAllocation => ~ConflictingExtents

(***************************************************************************)
(* C8.  A variable cataloged at an intermediate level and in neither the   *)
(* first nor the last level's catalog is an error at allocation time: no   *)
(* record of the data section is read for such a catalog.                  *)
(***************************************************************************)
IntermediateOnly ==
  \E l \in 2 .. (NLevels - 1) :
    NamesAt(l) \ (NamesAt(1) \cup NamesAt(NLevels)) # {}

C8_IntermediateIsAnError ==
  (pc \notin {"file_hdr", "grid_hdr", "level_hdr", "var_hdr", "scan", "seek",
              "alloc"}
     /\ NLevels >= 3 /\ IntermediateOnly)
    => (pc = "raised" /\ record_headers = <<>>)

(***************************************************************************)
(* C9.  If the tag of a file header (bytes 14..17 of a file that holds the *)
(* 50 bytes of one) is not "INDX", the decode raises as soon as the header *)
(* is read: the cursor is at 50, and no grid, level or variable header has *)
(* been parsed.                                                            *)
(***************************************************************************)
FileTag == SubSeq(file, 15, 18)

C9_TagRaisesFirst ==
  (pc # "file_hdr" /\ Len(file) >= RecordHeaderWidth /\ FileTag # INDX) =>
    /\ pc = "raised"
    /\ err.kind = "ARLFormatException"
    /\ pos = RecordHeaderWidth
    /\ grid_hdr = EmptyDict
    /\ level_info = <<>>
    /\ header_info = EmptyDict
    /\ var_info = <<>>

\* an old-style file with a grid header and more behind its file header
C9_Witness ==
  /\ pc = "raised"
  /\ FileTag = XXXX
  /\ Len(file) >= RecordHeaderWidth + GridHeaderWidth
  /\ pos = RecordHeaderWidth

(***************************************************************************)
(* C10.  As claimed: the exception raised for a tag that is not "INDX" is  *)
(* of another kind than the one raised for a header whose fields exceed    *)
(* its declared total width.                                               *)
(***************************************************************************)
TagRejected ==
  pc = "raised" /\ file_hdr # EmptyDict /\ file_hdr["kvar"] # INDX

C10_DedicatedKind ==
  TagRejected => err.kind # overrun_error.kind

(***************************************************************************)
(* C10, amended.  The exception raised for a tag that is not "INDX" is an  *)
(* ARLFormatException, the kind also raised for a header whose fields      *)
(* exceed its declared total width; only the message tells them apart.     *)
(***************************************************************************)
C10_SameKindOtherMessage ==
  TagRejected =>
    /\ err.kind = "ARLFormatException"
    /\ err.kind = overrun_error.kind
    /\ err.msg # overrun_error.msg

C10_Witness ==
  TagRejected /\ err.kind = "ARLFormatException" /\ short_reads = {}

(***************************************************************************)
(* C11.  8-bit reconstruction: a cell decoded from one byte raw (0..255)   *)
(* is (raw - 127) / 2^(7 - scale_exp) + previous, unless the precision     *)
(* clamp replaced that value by 0; with scale_exp = 0, previous = 0 and    *)
(* nothing to clamp, raw = 127 gives 0 and raw = 128 gives 1/2^7.          *)
(* Written without division: value * 2^(7 - scale_exp) is                  *)
(* (raw - 127) + previous * 2^(7 - scale_exp).                             *)
(***************************************************************************)
C11_EightBitReconstruction ==
  [][ (pc = "value" /\ ~is_16bit /\ pos < Len(file) /\ pc' # "raised") =>
        LET raw == file[pos + 1]
            scale == 2 ^ (7 - record_hdr["scale_exp"])
            scaled == (raw - 127) * One + last_val * scale
        IN  /\ raw \in 0 .. 255
            /\ \/ last_val' * scale = scaled
               \/ /\ last_val' = 0
                  /\ Abs(scaled) < record_hdr["precision"] * scale
            /\ (record_hdr["scale_exp"] = 0 /\ last_val = 0
                  /\ record_hdr["precision"] = 0) =>
                 /\ raw = 127 => last_val' = 0
                 /\ raw = 128 => last_val' * (2 ^ 7) = One ]_vars

\* bytes 127 and 128 have been decoded with scale_exp = 0 from a seed of 0
\* and no precision: the second cell is 1/2^7
C11_Witness ==
  /\ pc \in {"value", "rowreset"}
  /\ ~is_16bit
  /\ record_hdr["scale_exp"] = 0
  /\ record_hdr["precision"] = 0
  /\ record_hdr["initial_value"] = 0
  /\ i = 2 /\ j = 0
  /\ file[pos - 1] = 127 /\ file[pos] = 128
  /\ CellOfRecord(0, 0).val = 0
  /\ last_val * (2 ^ 7) = One

(***************************************************************************)
(* C12.  Precision clamp: the value a cell is given is exactly 0 when the  *)
(* magnitude of the reconstructed value is strictly less than the record's *)
(* precision, and the reconstructed value itself when its magnitude equals *)
(* or exceeds the precision.  The reconstructed value is what the same     *)
(* bytes decode to under a precision of 0, which clamps nothing.           *)
(***************************************************************************)
Reconstructed ==
  read_next_value(file, pos, last_val, 0, record_hdr["scale_exp"],
                  is_16bit, is_big_endian).val

C12_PrecisionClamp ==
  [][ (pc = "value" /\ pc' # "raised") =>
        /\ Abs(Reconstructed) < record_hdr["precision"] => last_val' = 0
        /\ Abs(Reconstructed) >= record_hdr["precision"]
             => last_val' = Reconstructed ]_vars

\* the first cell was reconstructed as 1/2^7, below the precision, and is 0;
\* the second is as large as the precision and is kept
C12_Witness ==
  /\ pc \in {"value", "rowreset"}
  /\ ~is_16bit
  /\ record_hdr["scale_exp"] = 0
  /\ record_hdr["precision"] > 0
  /\ i = 2 /\ j = 0
  /\ file[pos - 1] = 128
  /\ CellOfRecord(0, 0).val = 0
  /\ last_val = record_hdr["precision"]
  /\ CellOfRecord(1, 0).val = record_hdr["precision"]

(***************************************************************************)
(* C13.  When _read_header_info is given a total width and its format      *)
(* table asks for more, the overrun error is raised before the overflowing *)
(* field is read: the call, entered with the cursor at 0, ends with the    *)
(* cursor at or before the declared width.                                 *)
(***************************************************************************)
OverrunRaised == pc = "raised" /\ err = overrun_error

C13_OverrunRaisedBeforeRead ==
  OverrunRaised => pos <= call.nbytes_total

(***************************************************************************)
(* Vocabulary of C14: where field n of a format table starts, and the      *)
(* first field of the call's table that does not convert, no field up to   *)
(* it having passed the declared total width.                              *)
(***************************************************************************)
RECURSIVE FieldStart(_, _)
FieldStart(fs, n) ==
  IF n <= 1 THEN 0 ELSE FieldStart(fs, n - 1) + fs[n - 1].nbytes

Unconvertible(fs, n) ==
  /\ fs[n].key # None
  /\ ~convert(fs[n].fxn, fread(file, FieldStart(fs, n), fs[n].nbytes)).ok

Overruns(fs, n) ==
  call.nbytes_total # NoTotal /\ FieldStart(fs, n + 1) > call.nbytes_total

FirstFailure(fs, n) ==
  /\ Unconvertible(fs, n)
  /\ \A m \in 1 .. n : ~Overruns(fs, m)
  /\ \A m \in 1 .. (n - 1) : ~Unconvertible(fs, m)

StrictCallDone ==
  /\ call.fn = "_read_header_info"
  /\ ~call.allow_failed_conversions
  /\ pc # "header"

(***************************************************************************)
(* C14.  As claimed: in strict mode a field whose bytes do not convert     *)
(* ends the header parser with the exception kind of a width overrun.      *)
(***************************************************************************)
C14_StrictRaisesFormatError ==
  StrictCallDone =>
    \A n \in 1 .. Len(call.format_spec) :
      FirstFailure(call.format_spec, n) =>
        pc = "raised" /\ err.kind = overrun_error.kind

(***************************************************************************)
(* C14, amended.  In strict mode a field whose bytes do not convert ends   *)
(* the header parser with the converter's own exception, a ValueError (a   *)
(* UnicodeDecodeError for a name that is not ASCII), which is not the kind *)
(* of a width overrun; the fields before it are in the dictionary, no      *)
(* field after it is read.                                                 *)
(***************************************************************************)
C14_StrictRaisesValueError ==
  StrictCallDone =>
    \A n \in 1 .. Len(call.format_spec) :
      FirstFailure(call.format_spec, n) =>
        /\ pc = "raised"
        /\ err.kind \in {"ValueError", "UnicodeDecodeError"}
        /\ err.kind # overrun_error.kind
        /\ pos = Min(FieldStart(call.format_spec, n + 1), Len(file))
        /\ DOMAIN header_info
             = { call.format_spec[m].key : m \in 1 .. (n - 1) } \ {None}

\* a checksum with a letter in it, in a file that holds the whole header
C14_Witness ==
  /\ StrictCallDone
  /\ pc = "raised"
  /\ err.kind = "ValueError"
  /\ short_reads = {}
  /\ "variable_name" \in DOMAIN header_info
  /\ fread(file, pos - Len(N1A3), Len(N1A3)) = N1A3

(***************************************************************************)
(* C15.  Data-section cursor accounting.  _read_data, entered with the     *)
(* cursor at 0, takes the (level, variable) pairs in catalog order, levels *)
(* ascending; for each it reads a 50-byte record header and then nx * ny   *)
(* values of 1 byte (2 bytes in 16-bit mode), rows of x one after the      *)
(* other: the value of cell (i, j) starts 50 + (j * nx + i) * width bytes  *)
(* into its record, and the header read for a pair is the one the file     *)
(* holds at that pair's place.                                             *)
(***************************************************************************)
RECURSIVE VarsBelow(_)
VarsBelow(l) ==
  IF l <= 0 THEN 0 ELSE VarsBelow(l - 1) + Len(level_info[l]["variables"])

ValueWidth == IF is_16bit THEN 2 ELSE 1

RecordLength(shape) == RecordHeaderWidth + shape[1] * shape[2] * ValueWidth

C15_DataCursor ==
  /\ pc \in {"record", "value", "rowreset"} =>
       LET shape == var_arrays[variable_name].shape
           before == VarsBelow(klev) + (vidx - 1)
       IN  /\ pc = "record" =>
                /\ Len(record_headers) = before
                /\ pos = before * RecordLength(shape)
           /\ pc \in {"value", "rowreset"} =>
                /\ Len(record_headers) = before + 1
                /\ record_hdr = record_headers[before + 1]
                /\ record_hdr["kvar"] = variable_name
                /\ pos = before * RecordLength(shape) + RecordHeaderWidth
                           + (j * shape[1] + i) * ValueWidth
           /\ pc = "value" => i < shape[1] /\ j < shape[2]
           /\ pc = "rowreset" => i = shape[1] /\ j < shape[2]
  /\ pc = "decoded" =>
       /\ Len(record_headers) = VarsBelow(NLevels)
       /\ pos = Len(file)
       /\ \A name \in DOMAIN var_arrays :
            pos = VarsBelow(NLevels) * RecordLength(var_arrays[name].shape)

\* 16-bit mode: the second cell of the second row of the third record, the
\* first of the second level, is about to be read
C15_Witness ==
  /\ is_16bit
  /\ pc = "value"
  /\ klev = 1 /\ vidx = 1
  /\ Len(record_headers) = 3
  /\ i = 1 /\ j = 1
  /\ var_arrays[variable_name].shape[1] >= 2
  /\ pos = 2 * RecordLength(var_arrays[variable_name].shape)
             + RecordHeaderWidth
             + (var_arrays[variable_name].shape[1] + 1) * 2

(***************************************************************************)
(* C16.  The padding scan terminates on every input: when nothing but zero *)
(* bytes, or nothing at all, is left in the file at the scan's cursor, the *)
(* scan ends, and the call with it, in an ARLFormatException.              *)
(***************************************************************************)
NothingButZerosAhead == \A q \in (pos + 1) .. Len(file) : file[q] = 0

C16_ScanTerminates ==
  (pc = "scan" /\ NothingButZerosAhead)
    ~> (pc = "raised" /\ err.kind = "ARLFormatException")

(***************************************************************************)
(* C17.  Padding scan postcondition.  The scan starts where the catalog    *)
(* ends.  While it runs it has read nothing but zero bytes; when it has    *)
(* read a non-zero byte it backs up one byte, leaving the cursor on that   *)
(* byte, the first non-zero one, so that the next read returns it: the net *)
(* advance is the number of zero bytes before it, none when there is no    *)
(* padding.                                                                *)
(***************************************************************************)
ScanStart ==
  RecordHeaderWidth + GridHeaderWidth + LevelHeaderWidth * NLevels
    + VariableHeaderWidth * VarsBelow(NLevels)

ZerosBetween(a, b) == \A q \in (a + 1) .. b : file[q] = 0

C17_ScanPostcondition ==
  /\ pc = "scan" => ZerosBetween(ScanStart, pos)
  /\ pc = "seek" =>
       /\ pos > ScanStart
       /\ ZerosBetween(ScanStart, pos - 1)
       /\ file[pos] # 0
  /\ pc = "alloc" =>
       /\ pos >= ScanStart
       /\ ZerosBetween(ScanStart, pos)
       /\ pos < Len(file)
       /\ file[pos + 1] # 0
       /\ fread(file, pos, 1) = <<file[pos + 1]>>

\* the scan is over: it went over MaxPad zero bytes and the cursor is on the
\* first byte of a record header
C17_Witness ==
  /\ pc = "alloc"
  /\ MaxPad > 0
  /\ pos = ScanStart + MaxPad
  /\ fread(file, pos, 2) = Dec(95, 2)

(***************************************************************************)
(* C18.  When _read_data has run to its end, read_arl returns, and the     *)
(* record-header list it returns is the file header followed by the record *)
(* headers in the order they were read, one per (level, variable) pair:    *)
(* 1 + the sum of n_var_at_level elements.                                 *)
(***************************************************************************)
HeaderList(first, rest) == <<first>> \o rest

C18_ReturnedHeaderList ==
  [][ pc = "decoded" =>
        /\ pc' = "returned"
        /\ err' = NoErr
        /\ HeaderList(file_hdr', record_headers')[1] = file_hdr
        /\ Len(HeaderList(file_hdr', record_headers'))
             = 1 + VarsBelow(NLevels) ]_vars

(***************************************************************************)
(* C19.  Level catalog parsing.  The catalog starts after the grid header. *)
(* n_levels level headers are read, n_levels being the grid header's; each *)
(* is followed by its n_var_at_level variable headers, attached to it in   *)
(* the order they are read; headers are 8 bytes each, so the parse leaves  *)
(* the cursor 8 * (n_levels + sum of n_var_at_level) bytes after the grid  *)
(* header.                                                                 *)
(***************************************************************************)
CatalogStart == RecordHeaderWidth + GridHeaderWidth

CatalogWhole == short_reads \cap {"level_hdr", "var_hdr"} = {}

\* where the header of variable v of level l starts
VariableStart(l, v) ==
  CatalogStart + LevelHeaderWidth * l
    + VariableHeaderWidth * (VarsBelow(l - 1) + v - 1)

LevelAsRead(l) ==
  /\ Len(level_info[l]["variables"]) = level_info[l]["n_var_at_level"]
  /\ \A v \in 1 .. Len(level_info[l]["variables"]) :
       level_info[l]["variables"][v]["variable_name"]
         = fread(file, VariableStart(l, v), 4)

CatalogParsed ==
  /\ NLevels = grid_hdr["n_levels"]
  /\ \A l \in 1 .. NLevels : LevelAsRead(l)

C19_CatalogParsing ==
  /\ [](CatalogWhole =>
          /\ pc = "level_hdr" =>
               /\ NLevels < grid_hdr["n_levels"]
               /\ pos = ScanStart
               /\ \A l \in 1 .. NLevels : LevelAsRead(l)
          /\ pc = "var_hdr" =>
               /\ NLevels < grid_hdr["n_levels"]
               /\ Len(var_info) < header_info["n_var_at_level"]
               /\ pos = ScanStart + LevelHeaderWidth
                          + VariableHeaderWidth * Len(var_info)
          /\ pc \in {"scan", "seek", "alloc"} \cup AfterAllocation
               => CatalogParsed)
  /\ [][ (pc \in {"level_hdr", "var_hdr"} /\ pc' = "scan" /\ CatalogWhole')
           => pos' = CatalogStart
                + 8 * (grid_hdr["n_levels"] + VarsBelow(NLevels)') ]_vars

\* a catalog of MaxLevels levels of one and two variables has been parsed
C19_Witness ==
  /\ pc = "scan"
  /\ CatalogWhole
  /\ NLevels = MaxLevels
  /\ pos = ScanStart
  /\ \E l \in 1 .. NLevels, m \in 1 .. NLevels :
       /\ level_info[l]["n_var_at_level"] = 1
       /\ level_info[m]["n_var_at_level"] = 2
       /\ level_info[m]["variables"][2]["variable_name"] = TEMP

(***************************************************************************)
(* C20.  The value carried on is the value after the clamp.  When the      *)
(* value reconstructed for a cell is smaller in magnitude than the         *)
(* precision, the cell is given exactly 0 and the value the next cell is a *)
(* difference from is 0 as well; a row that follows a row whose first cell *)
(* is 0 starts from 0.                                                     *)
(***************************************************************************)
C20_SeedAfterClamp ==
  /\ [][ (pc = "value" /\ pc' # "raised"
            /\ Abs(Reconstructed) < record_hdr["precision"]) =>
           /\ var_arrays'[variable_name].cells[<<i, j, z_index(klev)>>]
                = Num(0)
           /\ last_val' = 0 ]_vars
  /\ [](pc = "value" =>
          /\ (i > 0 /\ CellOfRecord(i - 1, j).val = 0) => last_val = 0
          /\ (i = 0 /\ j > 0 /\ CellOfRecord(0, j - 1).val = 0)
               => last_val = 0)

\* the first cell of the first row was reconstructed as 1/2^7 from a seed
\* of 0 and clamped; the second row starts from 0
C20_Witness ==
  /\ pc = "value"
  /\ ~is_16bit
  /\ i = 0 /\ j = 1
  /\ record_hdr["scale_exp"] = 0
  /\ record_hdr["initial_value"] = 0
  /\ record_hdr["precision"] * (2 ^ 7) > One
  /\ file[pos - var_arrays[variable_name].shape[1] + 1] = 128
  /\ CellOfRecord(0, 0).val = 0
  /\ last_val = 0

(***************************************************************************)
(* C21.  The big-endian setting has no effect.  Every read of the padding  *)
(* scan and every value unpacked, in 8-bit and in 16-bit mode, leaves the  *)
(* cursor where the other setting of is_big_endian would leave it, on the  *)
(* same bytes, and gives the same byte and the same decoded value; in      *)
(* 16-bit mode the difference decoded is that of raw = byte2 * 256 + byte1 *)
(* from 32767, byte1 being the first byte read, under both settings.       *)
(***************************************************************************)
OtherEndian ==
  read_next_value(file, pos, last_val, record_hdr["precision"],
                  record_hdr["scale_exp"], is_16bit, ~is_big_endian)

=============================================================================
